---- MODULE Spec2Model ----
(***************************************************************************)
(* Model of src/aplicacion.py: the randomization of the WRO Future         *)
(* Engineers playing field.  The three generators                          *)
(*   randomize_and_draw_layout_for_open      (draw_layout, fixed = False)  *)
(*   randomize_and_draw_layout_fixed         (draw_layout, fixed = True)   *)
(*   randomize_and_draw_layout_for_obstacle                                *)
(* are modelled as actions over the module-level tables and the locals of  *)
(* the running call.  Every call of random.choice / randint / sample is a  *)
(* nondeterministic choice over the values the call can return.            *)
(***************************************************************************)
EXTENDS Integers, Sequences, FiniteSets, TLC

VARIABLES
    \* module-level tables (aplicacion.py 458-475, 619-708)
    obstacles_sets,
    mandatory_obstacles_sets,
    required_obstacles_sets,
    forbidden_intersections_in_start_zone,
    forbidden_intersections_in_parking_section,
    \* the image of the empty field that every generator copies (731-858)
    template,
    \* the running call
    pc,          \* "idle", "loop", "os1", "os2", "done", "error"
    call,        \* "none", "open", "fixed", "obstacle"
    direction,
    error,       \* the exception that ended the call, "None" if none
    \* locals of draw_layout
    inner_walls_config,
    inner_walls,
    starting_section,
    allowed_zones,
    starting_zone,
    \* locals of randomize_and_draw_layout_for_obstacle
    satisfied,
    mandatory_set_color,
    mandatory_obstacles_set,
    required_obstacles_set,
    os1,
    os2,
    chosen_obstacles_sets_indices,
    forbidden_start_zones,
    obstacles_set_conflicting_with_parking_section,
    obstacles_set_suitable_for_parking_section,
    obstacles_amount,
    green_amount,
    red_amount,
    obstacles_set_in_start_section,
    obstacles_set_in_parking_section,
    scheme,
    \* what the random source returned to the calls whose result is not kept
    \* in a local: sample() and the index drawn by each choice()
    random_outputs,
    \* what has been painted on the copy of the template
    image,
    \* the rectangles a sequence of calls of the section functions has painted
    painted

\* the tables the generators look things up in
lookup_tables == <<obstacles_sets, mandatory_obstacles_sets,
                   required_obstacles_sets,
                   forbidden_intersections_in_start_zone,
                   forbidden_intersections_in_parking_section>>

tables == <<lookup_tables, template>>

open_locals == <<inner_walls_config, inner_walls, starting_section,
                 allowed_zones, starting_zone>>

draw_locals == <<mandatory_set_color, mandatory_obstacles_set,
                 required_obstacles_set, os1, os2>>

tally_locals == <<chosen_obstacles_sets_indices, forbidden_start_zones,
                  obstacles_set_conflicting_with_parking_section,
                  obstacles_set_suitable_for_parking_section,
                  obstacles_amount, green_amount, red_amount>>

result_locals == <<obstacles_set_in_start_section,
                   obstacles_set_in_parking_section, scheme>>

vars == <<tables, pc, call, direction, error, open_locals, satisfied,
          draw_locals, tally_locals, result_locals, random_outputs, image,
          painted>>

----------------------------------------------------------------------------
(* Enumerations *)

\* sections = [Section.NORTH, Section.WEST, Section.SOUTH, Section.EAST]
sections == <<"NORTH", "WEST", "SOUTH", "EAST">>

Directions == {"CW", "CCW"}

\* list(StartZone): the members in definition order
StartZoneList == <<"Z1", "Z2", "Z3", "Z4", "Z5", "Z6">>

Range(s) == {s[i] : i \in DOMAIN s}

\* value of a local that is not bound (text-valued / index-valued)
None == "None"
NoIndex == 0 - 1

----------------------------------------------------------------------------
(* Module-level tables *)

\* Obstacle.__init__
Obstacle(position, color) == [position |-> position, color |-> color]

\* Obstacle.set_color(color)
set_color(o, color) == [o EXCEPT !.color = color]

\* Obstacle.is_green / Obstacle.is_red
is_green(o) == o.color = "GREEN"
is_red(o) == o.color = "RED"

\* The literal of obstacles_sets; entry k here is catalog index k - 1.
ObstaclesSetsLiteral ==
    << <<Obstacle("T1", "GREEN")>>,                            \* 0
       <<Obstacle("T1", "RED")>>,                              \* 1
       <<Obstacle("X1", "GREEN")>>,                            \* 2
       <<Obstacle("X1", "RED")>>,                              \* 3
       <<Obstacle("T2", "GREEN")>>,                            \* 4
       <<Obstacle("T2", "RED")>>,                              \* 5
       <<Obstacle("T3", "GREEN")>>,                            \* 6
       <<Obstacle("T3", "RED")>>,                              \* 7
       <<Obstacle("X2", "GREEN")>>,                            \* 8
       <<Obstacle("X2", "RED")>>,                              \* 9
       <<Obstacle("T4", "GREEN")>>,                            \* 10
       <<Obstacle("T4", "RED")>>,                              \* 11
       <<Obstacle("T3", "GREEN"), Obstacle("T2", "GREEN")>>,   \* 12
       <<Obstacle("T3", "GREEN"), Obstacle("T2", "RED")>>,     \* 13
       <<Obstacle("T3", "RED"), Obstacle("T2", "GREEN")>>,     \* 14
       <<Obstacle("T3", "RED"), Obstacle("T2", "RED")>>,       \* 15
       <<Obstacle("T1", "GREEN"), Obstacle("T4", "GREEN")>>,   \* 16
       <<Obstacle("T1", "GREEN"), Obstacle("T4", "RED")>>,     \* 17
       <<Obstacle("T1", "RED"), Obstacle("T4", "GREEN")>>,     \* 18
       <<Obstacle("T1", "RED"), Obstacle("T4", "RED")>>,       \* 19
       <<Obstacle("T1", "GREEN"), Obstacle("T2", "GREEN")>>,   \* 20
       <<Obstacle("T1", "GREEN"), Obstacle("T2", "RED")>>,     \* 21
       <<Obstacle("T1", "RED"), Obstacle("T2", "GREEN")>>,     \* 22
       <<Obstacle("T1", "GREEN"), Obstacle("T2", "RED")>>,     \* 23
       <<Obstacle("T1", "RED"), Obstacle("T2", "GREEN")>>,     \* 24
       <<Obstacle("T1", "RED"), Obstacle("T2", "RED")>>,       \* 25
       <<Obstacle("T3", "GREEN"), Obstacle("T4", "GREEN")>>,   \* 26
       <<Obstacle("T3", "GREEN"), Obstacle("T4", "RED")>>,     \* 27
       <<Obstacle("T3", "RED"), Obstacle("T4", "GREEN")>>,     \* 28
       <<Obstacle("T3", "GREEN"), Obstacle("T4", "RED")>>,     \* 29
       <<Obstacle("T3", "RED"), Obstacle("T4", "GREEN")>>,     \* 30
       <<Obstacle("T3", "RED"), Obstacle("T4", "RED")>> >>     \* 31

\* the catalog with entry 20 a copy of entry 21
ObstaclesSetsInitWithCopiedEntry ==
    [i \in 0 .. Len(ObstaclesSetsLiteral) - 1 |->
       IF i = 20 THEN ObstaclesSetsLiteral[22] ELSE ObstaclesSetsLiteral[i + 1]]

\* obstacles_sets as Python indexes it (from 0)
ObstaclesSetsInit ==
    [i \in 0 .. Len(ObstaclesSetsLiteral) - 1 |-> ObstaclesSetsLiteral[i + 1]]

\* the mandatory table pointing at the T4 sets instead of the X2 sets
MandatoryObstaclesSetsShifted == [c \in {"GREEN", "RED"} |->
                                    IF c = "GREEN" THEN 10 ELSE 11]

\* mandatory_obstacles_sets = {Color.GREEN: 8, Color.RED: 9}
MandatoryObstaclesSetsInit == [c \in {"GREEN", "RED"} |->
                                 IF c = "GREEN" THEN 8 ELSE 9]

\* required_obstacles_sets = [21, 22, 27, 28]
RequiredObstaclesSetsInit == <<21, 22, 27, 28>>

ForbiddenInStartZoneInit ==
    [d \in Directions |->
       IF d = "CW"
       THEN [z \in {"Z3", "Z4"} |->
               IF z = "Z3" THEN <<"T1", "T3">> ELSE <<"X1", "X2">>]
       ELSE [z \in {"Z3", "Z4"} |->
               IF z = "Z3" THEN <<"X1", "X2">> ELSE <<"T2", "T4">>]]

ForbiddenInParkingSectionInit == <<"T3", "T4", "X2">>

\* template as 731-858 build it: the empty field; its value here is the set
\* of the drawings the generators have made on it
TemplateInit == {}

\* image = template without the copy: what is drawn is drawn on template
TemplateAliased(t, drawn) == t \cup {drawn}

\* image = template.copy() (986, 1034): template after the generator has
\* drawn on the copy
TemplateAfterDrawing(t, drawn) == t

----------------------------------------------------------------------------
(* InnerWall *)

\* InnerWall.__init__(sides): one flag per side, set when the side is listed
InnerWall(sides) ==
    [north |-> "NORTH" \in Range(sides),
     west |-> "WEST" \in Range(sides),
     south |-> "SOUTH" \in Range(sides),
     east |-> "EAST" \in Range(sides),
     fixed_center |-> TRUE]

\* on_side with the WEST branch answering for the north wall
on_sideWestAsNorth(w, side) ==
    IF side = "NORTH" THEN w.north
    ELSE IF side = "WEST" THEN w.north
    ELSE IF side = "SOUTH" THEN w.south
    ELSE IF side = "EAST" THEN w.east
    ELSE FALSE

\* InnerWall.on_side(side): the if / elif chain; None for an unknown side
on_side(w, side) ==
    IF side = "NORTH" THEN w.north
    ELSE IF side = "WEST" THEN w.west
    ELSE IF side = "SOUTH" THEN w.south
    ELSE IF side = "EAST" THEN w.east
    ELSE FALSE

\* random.sample(population, k): the k-element sequences without repetition
Sample(population, k) ==
    {s \in [1 .. k -> Range(population)] :
       \A i, j \in 1 .. k : i # j => s[i] # s[j]}

\* random.choice(seq) when the random source returns the index r:
\* seq[_randbelow(len(seq))]
Choice(seq, r) == seq[r + 1]

\* the indices the random source can return to choice(seq)
ChoiceOutputs(seq) == 0 .. Len(seq) - 1

----------------------------------------------------------------------------
(* The playing field and the section functions *)

width == 3000
height == width
first_line == 400
second_line == first_line + 200
inner_border == second_line + 400
left_position == inner_border
middle_position == width \div 2
right_position == width - inner_border
border == 10
parking_barrier_thickness == 20
parking_barrier_length == 200
distance_between_parking_barriers == 300
obstacle_size == 100

Min(a, b) == IF a <= b THEN a ELSE b
Max(a, b) == IF a >= b THEN a ELSE b

\* img[r1:r2, c1:c2] = c: the rows r1 .. r2 - 1 and the columns c1 .. c2 - 1
Slice(r1, r2, c1, c2) == [rows |-> <<r1, r2>>, cols |-> <<c1, c2>>]

\* on_west painting the rectangle where on_north paints it
on_westUnrotated(h1, w1, h2, w2) ==
    Slice(Min(h1, h2) + border, Max(h1, h2) + border,
          Min(w1, w2) + border, Max(w1, w2) + border)

\* on_east painting the rectangle where on_west paints it
on_eastAsWest(h1, w1, h2, w2) ==
    Slice(height - Max(w1, w2) + border, height - Min(w1, w2) + border,
          Min(h1, h2) + border, Max(h1, h2) + border)

\* on_east without the subtraction from width: rows and columns exchanged
on_eastTransposed(h1, w1, h2, w2) ==
    Slice(Min(w1, w2) + border, Max(w1, w2) + border,
          Min(h1, h2) + border, Max(h1, h2) + border)

\* on_south with min and max exchanged: every slice ends before it starts
on_southReversed(h1, w1, h2, w2) ==
    Slice(height - Min(h1, h2) + border, height - Max(h1, h2) + border,
          width - Min(w1, w2) + border, width - Max(w1, w2) + border)

on_north(h1, w1, h2, w2) ==
    Slice(Min(h1, h2) + border, Max(h1, h2) + border,
          Min(w1, w2) + border, Max(w1, w2) + border)

on_south(h1, w1, h2, w2) ==
    Slice(height - Max(h1, h2) + border, height - Min(h1, h2) + border,
          width - Max(w1, w2) + border, width - Min(w1, w2) + border)

on_west(h1, w1, h2, w2) ==
    Slice(height - Max(w1, w2) + border, height - Min(w1, w2) + border,
          Min(h1, h2) + border, Max(h1, h2) + border)

on_east(h1, w1, h2, w2) ==
    Slice(Min(w1, w2) + border, Max(w1, w2) + border,
          width - Max(h1, h2) + border, width - Min(h1, h2) + border)

\* a member of Section called as the function that is its value
Section(section, h1, w1, h2, w2) ==
    CASE section = "NORTH" -> on_north(h1, w1, h2, w2)
      [] section = "SOUTH" -> on_south(h1, w1, h2, w2)
      [] section = "WEST" -> on_west(h1, w1, h2, w2)
      [] section = "EAST" -> on_east(h1, w1, h2, w2)

\* Intersection: the value of each member, (x, y)
Intersection ==
    [TopLeft |-> <<0, left_position>>,
     TopMiddle |-> <<0, middle_position>>,
     TopRight |-> <<0, right_position>>,
     T4 |-> <<first_line, left_position>>,
     X2 |-> <<first_line, middle_position>>,
     T3 |-> <<first_line, right_position>>,
     T2 |-> <<second_line, left_position>>,
     X1 |-> <<second_line, middle_position>>,
     T1 |-> <<second_line, right_position>>,
     BottomLeft |-> <<inner_border, left_position>>,
     BottomMiddle |-> <<inner_border, middle_position>>,
     BottomRight |-> <<inner_border, right_position>>]

\* StartZone: the value of each member, (top left, bottom right)
StartZone ==
    [Z1 |-> <<"X1", "BottomRight">>,
     Z2 |-> <<"T2", "BottomMiddle">>,
     Z3 |-> <<"X2", "T1">>,
     Z4 |-> <<"T4", "X1">>,
     Z5 |-> <<"TopMiddle", "T3">>,
     Z6 |-> <<"TopLeft", "X2">>]

\* the arguments VehiclePosition(start_zone).draw passes to the section
VehiclePositionCorners(start_zone) ==
    <<Intersection[StartZone[start_zone][1]][1],
      Intersection[StartZone[start_zone][1]][2],
      Intersection[StartZone[start_zone][2]][1],
      Intersection[StartZone[start_zone][2]][2]>>

\* the arguments Obstacle.draw passes to the section
ObstacleCorners(o) ==
    <<Intersection[o.position][1] - (obstacle_size \div 2),
      Intersection[o.position][2] - (obstacle_size \div 2),
      Intersection[o.position][1] + (obstacle_size \div 2),
      Intersection[o.position][2] + (obstacle_size \div 2)>>

\* the arguments draw_parking_lot_barriers passes to the section, first and
\* second barrier
ParkingBarriersCorners ==
    << <<0, left_position,
         parking_barrier_length, left_position + parking_barrier_thickness>>,
       <<0, left_position + parking_barrier_thickness
              + distance_between_parking_barriers,
         parking_barrier_length,
         left_position + parking_barrier_thickness
           + distance_between_parking_barriers + parking_barrier_thickness>> >>

\* InnerWall.draw (571-589): the positions of the four inner walls, the
\* default ones or, for a side that is pulled, along the second arc
InnerWallLines(w) ==
    [h_n |-> IF w.north THEN second_line ELSE inner_border,
     w_w |-> IF w.west THEN second_line ELSE inner_border,
     h_s |-> IF w.south THEN height - second_line ELSE height - inner_border,
     w_e |-> IF w.east THEN width - second_line ELSE width - inner_border]

\* InnerWall.draw (591-610): the slices of the north, west, south and east
\* walls
InnerWallSlices(w) ==
    LET l == InnerWallLines(w)
        half == border \div 2
    IN [north |-> Slice(l.h_n - half + border, l.h_n + half + border,
                        l.w_w - half + border, l.w_e + half + border),
        west |-> Slice(l.h_n - half + border, l.h_s + half + border,
                       l.w_w - half + border, l.w_w + half + border),
        south |-> Slice(l.h_s - half + border, l.h_s + half + border,
                        l.w_w - half + border, l.w_e + half + border),
        east |-> Slice(l.h_n - half + border, l.h_s + half + border,
                       l.w_e - half + border, l.w_e + half + border)]

\* one call section(img, h1, w1, h2, w2, c) as it is recorded in painted
Painted(section, corners) ==
    [section |-> section,
     canonical |-> corners,
     absolute |-> Section(section, corners[1], corners[2],
                          corners[3], corners[4])]

----------------------------------------------------------------------------
(* Initial state: the module is loaded, no request is being served *)

\* the module-level tables as the module body builds them
InitTables ==
    /\ obstacles_sets = ObstaclesSetsInit
    /\ mandatory_obstacles_sets = MandatoryObstaclesSetsInit
    /\ required_obstacles_sets = RequiredObstaclesSetsInit
    /\ forbidden_intersections_in_start_zone = ForbiddenInStartZoneInit
    /\ forbidden_intersections_in_parking_section = ForbiddenInParkingSectionInit
    /\ template = TemplateInit

\* no local of any generator is bound
InitLocals ==
    /\ error = None
    /\ inner_walls_config = <<>>
    /\ inner_walls = None
    /\ starting_section = None
    /\ allowed_zones = <<>>
    /\ starting_zone = None
    /\ satisfied = FALSE
    /\ mandatory_set_color = None
    /\ mandatory_obstacles_set = NoIndex
    /\ required_obstacles_set = NoIndex
    /\ os1 = NoIndex
    /\ os2 = NoIndex
    /\ chosen_obstacles_sets_indices = <<>>
    /\ forbidden_start_zones = <<>>
    /\ obstacles_set_conflicting_with_parking_section = {}
    /\ obstacles_set_suitable_for_parking_section = {}
    /\ obstacles_amount = 0
    /\ green_amount = 0
    /\ red_amount = 0
    /\ obstacles_set_in_start_section = NoIndex
    /\ obstacles_set_in_parking_section = NoIndex
    /\ scheme = None
    /\ random_outputs = None
    /\ image = None

Init ==
    /\ InitTables
    /\ InitLocals
    /\ pc = "idle"
    /\ call = "none"
    /\ direction = None
    /\ painted = <<>>

\* the locals of draw_layout are not bound
UnbindOpenLocals ==
    /\ inner_walls_config' = <<>>
    /\ inner_walls' = None
    /\ starting_section' = None
    /\ allowed_zones' = <<>>
    /\ starting_zone' = None

\* the locals that one iteration of the rejection loop assigns at 1119-1204
\* are not bound (not yet assigned, or left by an iteration that was rejected
\* and assigned again before they are read)
UnbindTallyLocals ==
    /\ chosen_obstacles_sets_indices' = <<>>
    /\ forbidden_start_zones' = <<>>
    /\ obstacles_set_conflicting_with_parking_section' = {}
    /\ obstacles_set_suitable_for_parking_section' = {}
    /\ obstacles_amount' = 0
    /\ green_amount' = 0
    /\ red_amount' = 0

UnbindDrawLocals ==
    /\ mandatory_set_color' = None
    /\ mandatory_obstacles_set' = NoIndex
    /\ required_obstacles_set' = NoIndex
    /\ os1' = NoIndex
    /\ os2' = NoIndex

UnbindResultLocals ==
    /\ obstacles_set_in_start_section' = NoIndex
    /\ obstacles_set_in_parking_section' = NoIndex
    /\ scheme' = None

----------------------------------------------------------------------------
(* draw_layout: the open round, with the random or the fixed centre *)

\* allowed_zones without the test of the wall of the start section
AllowedZonesUnrestricted(walls, section) == StartZoneList

\* allowed_zones (1025-1029)
AllowedZones(walls, section) ==
    IF on_side(walls, section)
    THEN <<"Z6", "Z5", "Z4", "Z3">>
    ELSE StartZoneList

\* the drawn walls without the fixed branch
WallsToDrawAsDrawn(fixed, walls) == walls

\* the InnerWall that is drawn (1041-1045)
WallsToDraw(fixed, walls) ==
    IF fixed THEN InnerWall(<<>>) ELSE walls

\* what draw_layout paints: the start zone, the inner walls, the narrow arc
OpenImage(zone, section, walls, d) ==
    [vehicle |-> [start_zone |-> zone, section |-> section],
     parking |-> None,
     obstacles |-> <<>>,
     inner_walls |-> walls,
     narrow |-> d]

draw_layout(d, fixed) ==
    /\ pc = "idle"
    /\ \E k \in 0 .. 4 :
         \E config \in Sample(sections, k) :
           \E r_section \in ChoiceOutputs(sections) :
             LET walls == InnerWall(config)
                 section == Choice(sections, r_section)
                 zones == AllowedZones(walls, section)
             IN \E r_zone \in ChoiceOutputs(zones) :
                  /\ inner_walls_config' = config
                  /\ starting_section' = section
                  /\ allowed_zones' = zones
                  /\ starting_zone' = Choice(zones, r_zone)
                  /\ inner_walls' = WallsToDraw(fixed, walls)
                  /\ image' = OpenImage(Choice(zones, r_zone), section,
                                        WallsToDraw(fixed, walls), d)
                  /\ template' = TemplateAfterDrawing(
                                    template,
                                    OpenImage(Choice(zones, r_zone), section,
                                              WallsToDraw(fixed, walls), d))
                  /\ random_outputs' = [sample |-> config,
                                        section |-> r_section,
                                        zone |-> r_zone]
    /\ pc' = "done"
    /\ call' = IF fixed THEN "fixed" ELSE "open"
    /\ direction' = d
    /\ UNCHANGED <<lookup_tables, error, satisfied, draw_locals,
                   tally_locals, result_locals, painted>>

randomize_and_draw_layout_for_open(d) == draw_layout(d, FALSE)

randomize_and_draw_layout_fixed(d) == draw_layout(d, TRUE)

----------------------------------------------------------------------------
(* randomize_and_draw_layout_for_obstacle: one iteration's tally, 1133-1204 *)

\* the lookup that takes the intersections of both directions
forbidden_intersectionsOfBothDirections(d) ==
    [zone \in {"Z3", "Z4"} |->
       forbidden_intersections_in_start_zone["CW"][zone]
         \o forbidden_intersections_in_start_zone["CCW"][zone]]

\* forbidden_intersections = forbidden_intersections_in_start_zone[direction]
forbidden_intersections(d) == forbidden_intersections_in_start_zone[d]

\* obstacles_amount after the loop over the chosen sets (1145)
RECURSIVE ObstaclesAmount(_)
ObstaclesAmount(indices) ==
    IF indices = <<>> THEN 0
    ELSE Len(obstacles_sets[Head(indices)]) + ObstaclesAmount(Tail(indices))

\* the obstacles of one set counted by the branch is_green() (1150-1151)
GreenIn(one_obstacles_set) ==
    Cardinality({k \in DOMAIN one_obstacles_set :
                   is_green(one_obstacles_set[k])})

\* the obstacles of one set counted by the branch elif is_red() (1153-1154)
RedIn(one_obstacles_set) ==
    Cardinality({k \in DOMAIN one_obstacles_set :
                   /\ ~is_green(one_obstacles_set[k])
                   /\ is_red(one_obstacles_set[k])})

RECURSIVE GreenAmount(_)
GreenAmount(indices) ==
    IF indices = <<>> THEN 0
    ELSE GreenIn(obstacles_sets[Head(indices)]) + GreenAmount(Tail(indices))

RECURSIVE RedAmount(_)
RedAmount(indices) ==
    IF indices = <<>> THEN 0
    ELSE RedIn(obstacles_sets[Head(indices)]) + RedAmount(Tail(indices))

\* the tally without the else branch
UnknownObstacleColorIgnored(indices) == FALSE

\* the else branch: raise ValueError("Unknown obstacle color") (1156-1157)
UnknownObstacleColor(indices) ==
    \E i \in DOMAIN indices :
      \E k \in DOMAIN obstacles_sets[indices[i]] :
        /\ ~is_green(obstacles_sets[indices[i]][k])
        /\ ~is_red(obstacles_sets[indices[i]][k])

\* forbidden_start_zones after the loop over the chosen sets (1147, 1161-1163):
\* a dict keyed by set index
ForbiddenStartZones(indices, d) ==
    [index \in Range(indices) |->
       {zone \in DOMAIN forbidden_intersections(d) :
          \E k \in DOMAIN obstacles_sets[index] :
            obstacles_sets[index][k].position
              \in Range(forbidden_intersections(d)[zone])}]

\* obstacles_set_conflicting_with_parking_section (1167-1171)
ConflictingWithParkingSection(indices) ==
    {index \in Range(indices) :
       \E k \in DOMAIN obstacles_sets[index] :
         \E j \in DOMAIN forbidden_intersections_in_parking_section :
           obstacles_sets[index][k].position
             = forbidden_intersections_in_parking_section[j]}

\* the deletion for a set with any forbidden zone
DeletesWhileIteratingAnyZone(zones) ==
    \E index \in DOMAIN zones : Cardinality(zones[index]) >= 1

\* 1177-1179 deletes a key of the dict it is iterating over: the next step of
\* the iteration raises RuntimeError
DeletesWhileIterating(zones) ==
    \E index \in DOMAIN zones : Cardinality(zones[index]) = 2

\* forbidden_start_zones after 1177-1179 when no key is deleted
WithUsableStartZone(zones) ==
    [index \in {i \in DOMAIN zones : Cardinality(zones[i]) # 2} |->
       zones[index]]

\* obstacles_set_suitable_for_parking_section (1183-1186)
SuitableForParkingSection(indices, conflicting) ==
    Range(indices) \ conflicting

\* satisfied without the test of the parking section
SatisfiedWithoutParking(green, red, amount, zones, suitable) ==
    /\ (IF green - red >= 0 THEN green - red ELSE red - green) <= 1
    /\ amount > 4
    /\ Cardinality(DOMAIN zones) > 0

\* satisfied with a balance test that tolerates a difference of two
SatisfiedLooseBalance(green, red, amount, zones, suitable) ==
    /\ (IF green - red >= 0 THEN green - red ELSE red - green) <= 2
    /\ amount > 4
    /\ Cardinality(DOMAIN zones) > 0
    /\ Cardinality(suitable) > 0

\* satisfied (1201-1204)
Satisfied(green, red, amount, zones, suitable) ==
    /\ (IF green - red >= 0 THEN green - red ELSE red - green) <= 1
    /\ amount > 4
    /\ Cardinality(DOMAIN zones) > 0
    /\ Cardinality(suitable) > 0

----------------------------------------------------------------------------
(* randomize_and_draw_layout_for_obstacle: the rejection loop *)

\* entry: 1089-1100
randomize_and_draw_layout_for_obstacle(d) ==
    /\ pc = "idle"
    /\ pc' = "loop"
    /\ call' = "obstacle"
    /\ direction' = d
    /\ satisfied' = FALSE
    /\ UNCHANGED <<tables, error, open_locals, draw_locals, tally_locals,
                   result_locals, random_outputs, image,
                   painted>>

\* while not satisfied: the draws of 1104-1112
LoopHead(color, required) ==
    /\ pc = "loop"
    /\ ~satisfied
    /\ mandatory_set_color' = color
    /\ IF color \in DOMAIN mandatory_obstacles_sets
       THEN /\ mandatory_obstacles_set' = mandatory_obstacles_sets[color]
            /\ required_obstacles_set' = required
            /\ os1' = mandatory_obstacles_sets[color]
            /\ pc' = "os1"
            /\ error' = error
       ELSE /\ mandatory_obstacles_set' = NoIndex
            /\ required_obstacles_set' = NoIndex
            /\ os1' = NoIndex
            /\ pc' = "error"
            /\ error' = "KeyError"
    /\ os2' = NoIndex
    /\ UnbindTallyLocals
    /\ UNCHANGED <<tables, call, direction, open_locals, satisfied,
                   result_locals, random_outputs, image,
                   painted>>

\* the first inner loop with its two tests negated: it holds for every os1
Os1ConditionNegated ==
    os1 # required_obstacles_set \/ os1 # mandatory_obstacles_set

\* the first inner loop without the test against the mandatory set
Os1ConditionRequiredOnly ==
    os1 = required_obstacles_set

\* the condition of the first inner loop (1114)
Os1Condition ==
    os1 = required_obstacles_set \/ os1 = mandatory_obstacles_set

\* os1 = randint(0, len(obstacles_sets) - 1) (1115)
RedrawOs1(v) ==
    /\ pc = "os1"
    /\ Os1Condition
    /\ os1' = v
    /\ UNCHANGED <<tables, pc, call, direction, error, open_locals, satisfied,
                   mandatory_set_color, mandatory_obstacles_set,
                   required_obstacles_set, os2, tally_locals, result_locals,
                   random_outputs, image, painted>>

\* the first inner loop ends; os2 = mandatory_obstacles_set (1119)
ExitOs1 ==
    /\ pc = "os1"
    /\ ~Os1Condition
    /\ os2' = mandatory_obstacles_set
    /\ pc' = "os2"
    /\ UNCHANGED <<tables, call, direction, error, open_locals, satisfied,
                   mandatory_set_color, mandatory_obstacles_set,
                   required_obstacles_set, os1, tally_locals, result_locals,
                   random_outputs, image, painted>>

\* the second inner loop without the test against os1
Os2ConditionWithoutOs1 ==
    \/ os2 = required_obstacles_set
    \/ os2 = mandatory_obstacles_set

\* the condition of the second inner loop (1121-1123)
Os2Condition ==
    \/ os2 = required_obstacles_set
    \/ os2 = mandatory_obstacles_set
    \/ os2 = os1

\* os2 = randint(0, len(obstacles_sets) - 1) (1124)
RedrawOs2(v) ==
    /\ pc = "os2"
    /\ Os2Condition
    /\ os2' = v
    /\ UNCHANGED <<tables, pc, call, direction, error, open_locals, satisfied,
                   mandatory_set_color, mandatory_obstacles_set,
                   required_obstacles_set, os1, tally_locals, result_locals,
                   random_outputs, image, painted>>

\* chosen_obstacles_sets_indices (1126-1131)
ChosenObstaclesSetsIndices ==
    <<mandatory_obstacles_set, required_obstacles_set, os1, os2>>

\* the second inner loop ends; the tally and the test of 1126-1204
Evaluate ==
    /\ pc = "os2"
    /\ ~Os2Condition
    /\ LET indices == ChosenObstaclesSetsIndices
           zones == ForbiddenStartZones(indices, direction)
           conflicting == ConflictingWithParkingSection(indices)
           suitable == SuitableForParkingSection(indices, conflicting)
       IN /\ chosen_obstacles_sets_indices' = indices
          /\ obstacles_amount' = ObstaclesAmount(indices)
          /\ green_amount' = GreenAmount(indices)
          /\ red_amount' = RedAmount(indices)
          /\ obstacles_set_conflicting_with_parking_section' = conflicting
          /\ IF UnknownObstacleColor(indices)
             THEN /\ pc' = "error"
                  /\ error' = "ValueError"
                  /\ forbidden_start_zones' = zones
                  /\ obstacles_set_suitable_for_parking_section' = {}
                  /\ satisfied' = satisfied
             ELSE IF DeletesWhileIterating(zones)
             THEN /\ pc' = "error"
                  /\ error' = "RuntimeError"
                  /\ forbidden_start_zones' = zones
                  /\ obstacles_set_suitable_for_parking_section' = {}
                  /\ satisfied' = satisfied
             ELSE /\ pc' = "loop"
                  /\ error' = error
                  /\ forbidden_start_zones' = WithUsableStartZone(zones)
                  /\ obstacles_set_suitable_for_parking_section' = suitable
                  /\ satisfied' =
                       Satisfied(GreenAmount(indices), RedAmount(indices),
                                 ObstaclesAmount(indices),
                                 WithUsableStartZone(zones), suitable)
    /\ UNCHANGED <<tables, call, direction, open_locals, draw_locals,
                   result_locals, random_outputs, image,
                   painted>>

----------------------------------------------------------------------------
(* randomize_and_draw_layout_for_obstacle: after the loop, 1206-1257 *)

\* the position of the last occurrence of index in the list
LastPosition(indices, index) ==
    CHOOSE k \in DOMAIN indices :
      /\ indices[k] = index
      /\ \A j \in DOMAIN indices : j > k => indices[j] # index

\* sections_for_obstacles_sets (1213-1216): the k-th chosen index takes the
\* k-th section popped from the end of shuffled_sections; a later assignment
\* to the same key replaces the earlier one
SectionsForObstaclesSets(indices, shuffled_sections) ==
    [index \in Range(indices) |->
       shuffled_sections[Len(shuffled_sections) + 1
                           - LastPosition(indices, index)]]

\* the start zone drawn without removing the forbidden zones
StartZoneCandidatesAll(zones, index) ==
    {"Z3", "Z4"}

\* the parking set drawn among all chosen sets
ParkingSectionCandidatesAll(suitable) ==
    Range(chosen_obstacles_sets_indices)

\* the parking set drawn among the sets that cannot be the start set
ParkingSectionCandidatesApartFromStart(suitable) ==
    suitable \ DOMAIN forbidden_start_zones

\* the zones choice() draws start_zone from (1238-1241)
StartZoneCandidates(zones, index) ==
    {"Z3", "Z4"} \ zones[index]

\* the candidates of choice(list(forbidden_start_zones.keys())) (1220)
StartSectionCandidates(zones) == DOMAIN zones

\* the candidates of choice(list(obstacles_set_suitable_for_parking_section))
ParkingSectionCandidates(suitable) == suitable

\* list(forbidden_start_zones.keys()) (1220): the keys in the order in which
\* 1147 inserted them, the order of the chosen indices
KeysList(indices, keys) ==
    SelectSeq([k \in DOMAIN indices |->
                 IF \E j \in DOMAIN indices : j < k /\ indices[j] = indices[k]
                 THEN NoIndex ELSE indices[k]],
              LAMBDA index : index \in keys)

\* A set of at most four catalog indices is a hash table of 8 slots; the hash
\* of an int is the int, the first slot probed is hash & 7 and the next one
\* after slot i is (5 * i + 1 + perturb) & 7, where perturb = hash >> 5 is 0
\* for a catalog index.
EmptyIntSet == [slot \in 0 .. 7 |-> NoIndex]

RECURSIVE UnusedSlot(_, _)
UnusedSlot(table, slot) ==
    IF table[slot] = NoIndex THEN slot
    ELSE UnusedSlot(table, (5 * slot + 1) % 8)

\* set.add(key)
IntSetAdd(table, key) ==
    IF key \in Range(table) THEN table
    ELSE [table EXCEPT ![UnusedSlot(table, key % 8)] = key]

\* set(list): the elements are added in the order of the list
RECURSIVE IntSet(_)
IntSet(list) ==
    IF list = <<>> THEN EmptyIntSet
    ELSE IntSetAdd(IntSet(SubSeq(list, 1, Len(list) - 1)), list[Len(list)])

\* list(set): the used slots in the order of the table
ListOfIntSet(table) ==
    SelectSeq([k \in 1 .. 8 |-> table[k - 1]],
              LAMBDA index : index # NoIndex)

\* list(obstacles_set_suitable_for_parking_section) (1227) for the set that
\* 1183-1186 builds as set(chosen_obstacles_sets_indices) - conflicting: the
\* difference is a copy of the left operand when nothing is to be removed,
\* and otherwise a new set to which the elements that stay are added in the
\* order of the left operand's table
SuitableList(indices, conflicting, candidates) ==
    IF conflicting = {} /\ candidates = Range(indices)
    THEN ListOfIntSet(IntSet(indices))
    ELSE ListOfIntSet(IntSet(SelectSeq(ListOfIntSet(IntSet(indices)),
                                       LAMBDA index : index \in candidates)))

\* list(set([StartZone.Z3, StartZone.Z4]) - set(forbidden)) (1238-1241): the
\* hash of an Enum member is the hash of its name, a str, which the
\* interpreter salts with the hash seed of the process; the order of two
\* zones in the list is either one, depending on the process
ListsOfZoneSet(candidates) ==
    {list \in [1 .. Cardinality(candidates) -> candidates] :
       \A i, j \in DOMAIN list : i # j => list[i] # list[j]}

\* what draw_scheme_for_final and 1252-1255 paint
ObstacleImage(sch, d) ==
    [vehicle |-> [start_zone |-> sch.start_zone,
                  section |-> sch.start_section],
     parking |-> sch.parking_section,
     obstacles |-> sch.obstacles,
     inner_walls |-> InnerWall(<<>>),
     narrow |-> d]

\* the loop has ended: 1208-1257
AssignAndDraw ==
    /\ pc = "loop"
    /\ satisfied
    /\ LET keys == KeysList(chosen_obstacles_sets_indices,
                            StartSectionCandidates(forbidden_start_zones))
           suitable ==
             SuitableList(chosen_obstacles_sets_indices,
                          obstacles_set_conflicting_with_parking_section,
                          ParkingSectionCandidates(
                            obstacles_set_suitable_for_parking_section))
       IN \E shuffled_sections \in Sample(sections, 4) :
            \E r_start \in ChoiceOutputs(keys) :
              \E r_parking \in ChoiceOutputs(suitable) :
                \E zones \in ListsOfZoneSet(
                               StartZoneCandidates(forbidden_start_zones,
                                                   Choice(keys, r_start))) :
                  \E r_zone \in ChoiceOutputs(zones) :
                    LET in_start == Choice(keys, r_start)
                        in_parking == Choice(suitable, r_parking)
                        sections_for_obstacles_sets ==
                          SectionsForObstaclesSets(
                            chosen_obstacles_sets_indices, shuffled_sections)
                        sch == [start_section |->
                                  sections_for_obstacles_sets[in_start],
                                start_zone |-> Choice(zones, r_zone),
                                obstacles |-> sections_for_obstacles_sets,
                                parking_section |->
                                  sections_for_obstacles_sets[in_parking]]
                    IN /\ obstacles_set_in_start_section' = in_start
                       /\ obstacles_set_in_parking_section' = in_parking
                       /\ scheme' = sch
                       /\ image' = ObstacleImage(sch, direction)
                       /\ template' = TemplateAfterDrawing(
                                         template,
                                         ObstacleImage(sch, direction))
                       /\ random_outputs' = [sample |-> shuffled_sections,
                                             start |-> r_start,
                                             parking |-> r_parking,
                                             zone |-> r_zone]
    /\ pc' = "done"
    /\ UNCHANGED <<lookup_tables, call, direction, error, open_locals,
                   satisfied, draw_locals, tally_locals, painted>>

\* the call returns (or its exception leaves it); the next request may come
Return ==
    /\ pc \in {"done", "error"}
    /\ pc' = "idle"
    /\ call' = "none"
    /\ direction' = None
    /\ error' = None
    /\ satisfied' = FALSE
    /\ image' = None
    /\ UnbindOpenLocals
    /\ UnbindDrawLocals
    /\ UnbindTallyLocals
    /\ UnbindResultLocals
    /\ random_outputs' = None
    /\ UNCHANGED <<tables, painted>>

----------------------------------------------------------------------------
(* Specification *)

\* the values of choice([Color.GREEN, Color.RED]) (1104)
MandatoryColors == {"GREEN", "RED"}

\* the values of randint(0, len(obstacles_sets) - 1)
CatalogIndices == 0 .. Cardinality(DOMAIN obstacles_sets) - 1

Next ==
    \/ \E d \in Directions : randomize_and_draw_layout_for_open(d)
    \/ \E d \in Directions : randomize_and_draw_layout_fixed(d)
    \/ \E d \in Directions : randomize_and_draw_layout_for_obstacle(d)
    \/ \E color \in MandatoryColors :
         \E required \in Range(required_obstacles_sets) :
           LoopHead(color, required)
    \/ \E v \in CatalogIndices : RedrawOs1(v)
    \/ ExitOs1
    \/ \E v \in CatalogIndices : RedrawOs2(v)
    \/ Evaluate
    \/ AssignAndDraw
    \/ Return

Spec == Init /\ [][Next]_vars

----------------------------------------------------------------------------
(* The rejection loop of one call on its own, with a fair random source *)

\* the state in which randomize_and_draw_layout_for_obstacle(d) enters its
\* loop (1100), for either direction
LoopInit ==
    /\ InitTables
    /\ InitLocals
    /\ pc = "loop"
    /\ call = "obstacle"
    /\ direction \in Directions
    /\ painted = <<>>

LoopNext ==
    \/ \E color \in MandatoryColors :
         \E required \in Range(required_obstacles_sets) :
           LoopHead(color, required)
    \/ \E v \in CatalogIndices : RedrawOs1(v)
    \/ ExitOs1
    \/ \E v \in CatalogIndices : RedrawOs2(v)
    \/ Evaluate

\* the open round on its own, with the random and with the fixed centre
OpenNext ==
    \/ \E d \in Directions : randomize_and_draw_layout_for_open(d)
    \/ \E d \in Directions : randomize_and_draw_layout_fixed(d)
    \/ Return

OpenSpec == Init /\ [][OpenNext]_vars

\* the rejection loop with no assumption on the random source
LoopSpec == LoopInit /\ [][LoopNext]_vars

\* the test of 1201-1204 on the draw <<mandatory, required, a, b>>, for a
\* draw that leaves both inner loops
Accepted(d, indices) ==
    /\ indices[3] \notin {indices[1], indices[2]}
    /\ indices[4] \notin {indices[1], indices[2], indices[3]}
    /\ ~UnknownObstacleColor(indices)
    /\ ~DeletesWhileIterating(ForbiddenStartZones(indices, d))
    /\ Satisfied(GreenAmount(indices), RedAmount(indices),
                 ObstaclesAmount(indices),
                 WithUsableStartZone(ForbiddenStartZones(indices, d)),
                 SuitableForParkingSection(
                   indices, ConflictingWithParkingSection(indices)))

\* a draw of os1 after which some draw of os2 is accepted
RedrawOs1Acceptable ==
    \E v \in CatalogIndices :
      /\ RedrawOs1(v)
      /\ \E b \in CatalogIndices :
           Accepted(direction, <<mandatory_obstacles_set,
                                 required_obstacles_set, v, b>>)

\* a draw of os2 that is accepted
RedrawOs2Accepted ==
    \E v \in CatalogIndices :
      /\ RedrawOs2(v)
      /\ Accepted(direction, <<mandatory_obstacles_set,
                               required_obstacles_set, os1, v>>)

\* The interpreter runs the next statement; the random source is fair: a
\* value that a draw can return is returned if the draw is repeated for ever
\* (weak fairness per value in the inner loops), and an outcome that is
\* possible again and again at a draw is eventually drawn (strong fairness).
Fairness ==
    /\ WF_vars(\E color \in MandatoryColors :
                 \E required \in Range(required_obstacles_sets) :
                   LoopHead(color, required))
    /\ WF_vars(ExitOs1)
    /\ WF_vars(Evaluate)
    /\ \A v \in DOMAIN ObstaclesSetsInit :
         WF_vars(RedrawOs1(v) \/ RedrawOs2(v))
    /\ SF_vars(RedrawOs1Acceptable)
    /\ SF_vars(RedrawOs2Accepted)

FairLoopSpec == LoopInit /\ [][LoopNext]_vars /\ Fairness

----------------------------------------------------------------------------
(* The rejection loop over a catalog with an obstacle of undefined color *)

\* the sets of the catalog in which an obstacle is given Color.UNDEFINED: a
\* mandatory set, a single-obstacle set, a required set and a two-obstacle
\* set that is neither
RecoloredSets == {8, 0, 21, 31}

\* obstacles_sets after obstacles_sets[index][k - 1].set_color(color), the
\* one way the code has of giving an obstacle another color
Recolored(index, k, color) ==
    [ObstaclesSetsInit EXCEPT ![index][k] = set_color(@, color)]

\* randomize_and_draw_layout_for_obstacle(d) enters its loop with the catalog
\* as shipped or with one obstacle of undefined color
RecoloredInit ==
    /\ obstacles_sets
         \in {ObstaclesSetsInit}
               \cup {Recolored(index, k, "UNDEFINED") :
                       index \in RecoloredSets, k \in {1, 2}}
    /\ mandatory_obstacles_sets = MandatoryObstaclesSetsInit
    /\ required_obstacles_sets = RequiredObstaclesSetsInit
    /\ forbidden_intersections_in_start_zone = ForbiddenInStartZoneInit
    /\ forbidden_intersections_in_parking_section = ForbiddenInParkingSectionInit
    /\ template = TemplateInit
    /\ InitLocals
    /\ pc = "loop"
    /\ call = "obstacle"
    /\ direction \in Directions
    /\ painted = <<>>

RecoloredSpec == RecoloredInit /\ [][LoopNext]_vars

----------------------------------------------------------------------------
(* The section functions on their own *)

\* the state of the generators, which the section functions do not touch
program == <<tables, pc, call, direction, error, open_locals, satisfied,
             draw_locals, tally_locals, result_locals, random_outputs, image>>

\* the canonical coordinates tried: CoordSteps + 1 values from 0 to width
CoordSteps == 4

\* the number of section functions applied one after the other
MaxApplied == 2

\* the number of draw calls on one image
MaxPainted == 2

Coordinates == {(k * width) \div CoordSteps : k \in 0 .. CoordSteps}

\* section(img, h1, w1, h2, w2, c) on a fresh image
PaintRectangle(section, corners) ==
    /\ painted = <<>>
    /\ painted' = <<Painted(section, corners)>>
    /\ UNCHANGED program

\* the corners, in field coordinates, of the rectangle a call has painted
FieldCorners(absolute) ==
    <<absolute.rows[1] - border, absolute.cols[1] - border,
      absolute.rows[2] - border, absolute.cols[2] - border>>

\* section(img, ...) with the rectangle the last call painted as its canonical
\* rectangle
Reapply(section) ==
    /\ painted # <<>>
    /\ Len(painted) < MaxApplied
    /\ painted' = Append(painted,
                         Painted(section,
                                 FieldCorners(painted[Len(painted)].absolute)))
    /\ UNCHANGED program

TransformNext ==
    \/ \E section \in Range(sections) :
         \E h1, w1, h2, w2 \in Coordinates :
           PaintRectangle(section, <<h1, w1, h2, w2>>)
    \/ \E section \in Range(sections) : Reapply(section)

TransformSpec == Init /\ [][TransformNext]_vars

\* VehiclePosition(start_zone).draw(img, section)
DrawVehiclePosition(start_zone, section) ==
    /\ Len(painted) < MaxPainted
    /\ painted' = Append(painted,
                         Painted(section, VehiclePositionCorners(start_zone)))
    /\ UNCHANGED program

\* obstacles_sets[index][k - 1].draw(img, section)
DrawObstacle(index, k, section) ==
    /\ Len(painted) < MaxPainted
    /\ painted' = Append(painted,
                         Painted(section,
                                 ObstacleCorners(obstacles_sets[index][k])))
    /\ UNCHANGED program

\* draw_parking_lot_barriers(img, section)
draw_parking_lot_barriers(section) ==
    /\ Len(painted) < MaxPainted
    /\ painted' = painted \o <<Painted(section, ParkingBarriersCorners[1]),
                               Painted(section, ParkingBarriersCorners[2])>>
    /\ UNCHANGED program

PaintNext ==
    \/ \E start_zone \in Range(StartZoneList) :
         \E section \in Range(sections) :
           DrawVehiclePosition(start_zone, section)
    \/ \E index \in DOMAIN obstacles_sets :
         \E k \in DOMAIN obstacles_sets[index] :
           \E section \in Range(sections) : DrawObstacle(index, k, section)
    \/ \E section \in Range(sections) : draw_parking_lot_barriers(section)

PaintSpec == Init /\ [][PaintNext]_vars

----------------------------------------------------------------------------
(* Properties of the section functions *)

\* the numbers of rows and of columns of a slice
Rows(absolute) == absolute.rows[2] - absolute.rows[1]
Cols(absolute) == absolute.cols[2] - absolute.cols[1]

\* the height and width extents of a canonical rectangle
HeightExtent(corners) == Max(corners[1], corners[3]) - Min(corners[1], corners[3])
WidthExtent(corners) == Max(corners[2], corners[4]) - Min(corners[2], corners[4])

\* the two corners given in the other order
Swapped(corners) == <<corners[3], corners[4], corners[1], corners[2]>>

\* C12: for every canonical rectangle with coordinates in 0 .. 3000, North
\* paints the same rectangle shifted by the border on both axes, South a
\* rectangle of the same height and width, West and East a rectangle whose
\* height is the canonical width extent and whose width is the canonical
\* height extent; the result does not depend on the order of the two corners.
C12_Transforms ==
    \A k \in DOMAIN painted :
      LET p == painted[k]
          c == p.canonical
      IN /\ p.section = "NORTH" =>
              p.absolute = [rows |-> <<Min(c[1], c[3]) + border,
                                       Max(c[1], c[3]) + border>>,
                            cols |-> <<Min(c[2], c[4]) + border,
                                       Max(c[2], c[4]) + border>>]
         /\ p.section = "SOUTH" =>
              /\ Rows(p.absolute) = HeightExtent(c)
              /\ Cols(p.absolute) = WidthExtent(c)
         /\ p.section \in {"WEST", "EAST"} =>
              /\ Rows(p.absolute) = WidthExtent(c)
              /\ Cols(p.absolute) = HeightExtent(c)
         /\ p.absolute = Painted(p.section, Swapped(c)).absolute

C12_Witness ==
    /\ Len(painted) = 1
    /\ painted[1].section = "WEST"
    /\ painted[1].canonical[1] > painted[1].canonical[3]
    /\ painted[1].canonical[2] < painted[1].canonical[4]
    /\ HeightExtent(painted[1].canonical) > WidthExtent(painted[1].canonical)
    /\ Rows(painted[1].absolute) < Cols(painted[1].absolute)

\* two slices have no pixel in common
Disjoint(a, b) ==
    \/ a.rows[2] <= a.rows[1] \/ a.cols[2] <= a.cols[1]
    \/ b.rows[2] <= b.rows[1] \/ b.cols[2] <= b.cols[1]
    \/ a.rows[2] <= b.rows[1] \/ b.rows[2] <= a.rows[1]
    \/ a.cols[2] <= b.cols[1] \/ b.cols[2] <= a.cols[1]

\* C13: the rectangles painted for two different sections are disjoint, for
\* every start zone, every obstacle square of the catalog and both parking
\* barriers.
C13_SectionsDisjoint ==
    \A i, j \in DOMAIN painted :
      painted[i].section # painted[j].section =>
        Disjoint(painted[i].absolute, painted[j].absolute)

\* the T4 obstacle of North and the T1 obstacle of West, the two squares that
\* reach over the corner between the two sections
C13_Witness ==
    /\ Len(painted) = 2
    /\ painted[1] = Painted("NORTH", ObstacleCorners(Obstacle("T4", "RED")))
    /\ painted[2] = Painted("WEST", ObstacleCorners(Obstacle("T1", "RED")))
    /\ painted[1].absolute.cols[1] < left_position + border
    /\ painted[2].absolute.rows[1] < left_position + border

\* the shape of template (731-733): rows and columns of the image
ImageRows == height + border * 2
ImageCols == width + border * 2

\* C22: every rectangle the generators paint (a start zone, an obstacle
\* square of the catalog, a parking barrier) in any section starts at 0 or
\* above, ends after it starts and ends at 3020 or below, on both axes: no
\* slice index is negative or outside the image.
C22_SlicesInsideImage ==
    \A k \in DOMAIN painted :
      LET a == painted[k].absolute
      IN /\ 0 <= a.rows[1]
         /\ a.rows[1] < a.rows[2]
         /\ a.rows[2] <= ImageRows
         /\ 0 <= a.cols[1]
         /\ a.cols[1] < a.cols[2]
         /\ a.cols[2] <= ImageCols
         /\ ImageRows = 3020
         /\ ImageCols = 3020

\* the shapes nearest to the edges of the image: start zone Z6 in South,
\* which ends at the last row of the field, and the parking barriers in West
C22_Witness ==
    /\ Len(painted) = 3
    /\ painted[1] = Painted("SOUTH", VehiclePositionCorners("Z6"))
    /\ painted[1].absolute.rows[2] = height + border
    /\ painted[2] = Painted("WEST", ParkingBarriersCorners[1])
    /\ painted[2].absolute.cols[1] = border
    /\ painted[3] = Painted("WEST", ParkingBarriersCorners[2])

\* a point of the field after a quarter turn about the centre of the field
QuarterTurn(point) ==
    <<(height + width) \div 2 - point[2],
      point[1] + (width - height) \div 2>>

RECURSIVE Turned(_, _)
Turned(point, turns) ==
    IF turns = 0 THEN point ELSE Turned(QuarterTurn(point), turns - 1)

\* the quarter turns of a section: North none, West one, South two, East three
Turns(section) ==
    CASE section = "NORTH" -> 0
      [] section = "WEST" -> 1
      [] section = "SOUTH" -> 2
      [] section = "EAST" -> 3

\* the slice that holds the rectangle with the two given corner points
Spanned(p, q) ==
    [rows |-> <<Min(p[1], q[1]) + border, Max(p[1], q[1]) + border>>,
     cols |-> <<Min(p[2], q[2]) + border, Max(p[2], q[2]) + border>>]

\* C18: the four section functions are the four rotations of the field by
\* multiples of 90 degrees about its centre: West turns what North paints by
\* a quarter turn, South by a half turn, East by three quarters; so South
\* applied twice, and West followed by East, give back the original rectangle.
C18_Rotations ==
    /\ \A k \in DOMAIN painted :
         LET p == painted[k]
         IN p.absolute
              = Spanned(Turned(<<p.canonical[1], p.canonical[2]>>,
                               Turns(p.section)),
                        Turned(<<p.canonical[3], p.canonical[4]>>,
                               Turns(p.section)))
    /\ (/\ Len(painted) = 2
        /\ <<painted[1].section, painted[2].section>>
             \in {<<"SOUTH", "SOUTH">>, <<"WEST", "EAST">>}) =>
         painted[2].absolute
           = Spanned(<<painted[1].canonical[1], painted[1].canonical[2]>>,
                     <<painted[1].canonical[3], painted[1].canonical[4]>>)

C18_Witness ==
    /\ Len(painted) = 2
    /\ painted[1].section = "WEST"
    /\ painted[2].section = "EAST"
    /\ HeightExtent(painted[1].canonical) # WidthExtent(painted[1].canonical)
    /\ painted[1].canonical[1] + painted[1].canonical[3] # height
    /\ painted[1].canonical[2] + painted[1].canonical[4] # width
    /\ painted[1].absolute # painted[2].absolute
    /\ FieldCorners(painted[2].absolute)
         = <<Min(painted[1].canonical[1], painted[1].canonical[3]),
             Min(painted[1].canonical[2], painted[1].canonical[4]),
             Max(painted[1].canonical[1], painted[1].canonical[3]),
             Max(painted[1].canonical[2], painted[1].canonical[4])>>

----------------------------------------------------------------------------
(* Properties of the obstacle round *)

\* an obstacle-round scheme has been accepted, assigned and drawn
Delivered == pc = "done" /\ call = "obstacle"

\* the obstacles the scheme places on the field: <<set index, position in set>>
Placed ==
    {p \in (DOMAIN scheme.obstacles) \X {1, 2} :
       p[2] \in DOMAIN obstacles_sets[p[1]]}

PlacedOfColor(color) ==
    {p \in Placed : obstacles_sets[p[1]][p[2]].color = color}

\* the sets the scheme puts in a section
SetsIn(section) ==
    {index \in DOMAIN scheme.obstacles : scheme.obstacles[index] = section}

\* the intersections occupied in a section
OccupiedIn(section) ==
    {obstacles_sets[p[1]][p[2]].position :
       p \in {q \in Placed : scheme.obstacles[q[1]] = section}}

\* C1: in every accepted obstacle-round scheme the numbers of green and of
\* red obstacles on the field differ by at most one.
C1_ColorBalance ==
    Delivered =>
      /\ Cardinality(PlacedOfColor("GREEN"))
           - Cardinality(PlacedOfColor("RED")) <= 1
      /\ Cardinality(PlacedOfColor("RED"))
           - Cardinality(PlacedOfColor("GREEN")) <= 1

C1_Witness ==
    /\ Delivered
    /\ direction = "CCW"
    /\ Cardinality(PlacedOfColor("RED"))
         = Cardinality(PlacedOfColor("GREEN")) + 1

\* C2: in every accepted obstacle-round scheme the start section holds one
\* of the 4 chosen sets, the start zone is Z3 or Z4, and no obstacle in the
\* start section is on an intersection ahead of the vehicle for that zone
\* and the direction of the call.
C2_StartZoneLegal ==
    Delivered =>
      /\ \E index \in Range(chosen_obstacles_sets_indices) :
           index \in SetsIn(scheme.start_section)
      /\ scheme.start_zone \in {"Z3", "Z4"}
      /\ image.vehicle = [start_zone |-> scheme.start_zone,
                          section |-> scheme.start_section]
      /\ OccupiedIn(scheme.start_section)
           \cap Range(ForbiddenInStartZoneInit[direction][scheme.start_zone])
           = {}

C2_Witness ==
    /\ Delivered
    /\ direction = "CW"
    /\ scheme.start_zone = "Z4"
    /\ "T3" \in OccupiedIn(scheme.start_section)

\* C3: in every accepted obstacle-round scheme the parking section holds one
\* of the 4 chosen sets and that section has no obstacle at T3, T4 or X2.
C3_ParkingLegal ==
    Delivered =>
      /\ \E index \in Range(chosen_obstacles_sets_indices) :
           index \in SetsIn(scheme.parking_section)
      /\ image.parking = scheme.parking_section
      /\ OccupiedIn(scheme.parking_section) \cap {"T3", "T4", "X2"} = {}

C3_Witness ==
    /\ Delivered
    /\ Cardinality(obstacles_set_suitable_for_parking_section) = 1
    /\ OccupiedIn(scheme.parking_section) = {"T1", "T2"}

\* C4: in every accepted obstacle-round scheme the 4 chosen indices are
\* pairwise distinct and the index-to-section mapping is a bijection onto
\* the four sections.
C4_Bijection ==
    Delivered =>
      /\ Len(chosen_obstacles_sets_indices) = 4
      /\ \A i, j \in 1 .. 4 :
           i # j => chosen_obstacles_sets_indices[i]
                      # chosen_obstacles_sets_indices[j]
      /\ DOMAIN scheme.obstacles = Range(chosen_obstacles_sets_indices)
      /\ Cardinality(DOMAIN scheme.obstacles) = 4
      /\ \A a, b \in DOMAIN scheme.obstacles :
           a # b => scheme.obstacles[a] # scheme.obstacles[b]
      /\ {scheme.obstacles[a] : a \in DOMAIN scheme.obstacles}
           = {"NORTH", "WEST", "SOUTH", "EAST"}

C4_Witness ==
    /\ Delivered
    /\ os2 < os1
    /\ scheme.obstacles[os2] = "NORTH"
    /\ scheme.obstacles[mandatory_obstacles_set] = "EAST"

\* C5: every obstacle-round scheme contains set 8 or set 9, so that some
\* section has an obstacle at X2, and a set of the pool {21, 22, 27, 28}.
C5_MandatoryAndRequired ==
    Delivered =>
      /\ (DOMAIN scheme.obstacles) \cap {8, 9} # {}
      /\ \E section \in Range(sections) : "X2" \in OccupiedIn(section)
      /\ (DOMAIN scheme.obstacles) \cap {21, 22, 27, 28} # {}

C5_Witness ==
    /\ Delivered
    /\ 9 \in DOMAIN scheme.obstacles
    /\ 28 \in DOMAIN scheme.obstacles
    /\ "X2" \in OccupiedIn("SOUTH")

\* C6: every accepted obstacle-round scheme places more than 4 obstacles.
C6_MoreThanFour ==
    Delivered => Cardinality(Placed) > 4

C6_Witness ==
    /\ Delivered
    /\ Cardinality(Placed) = 5
    /\ obstacles_amount = 5

\* C11: two obstacle-round generations with the same direction and the same
\* random-source outputs return the same scheme: the scheme is the one that
\* the direction, the draws and the indices returned to sample() and to each
\* choice() determine, in whatever order the candidate sets are turned into
\* lists.
C11_SameOutputsSameScheme ==
    Delivered =>
      /\ scheme.obstacles
           = SectionsForObstaclesSets(chosen_obstacles_sets_indices,
                                      random_outputs.sample)
      /\ scheme.start_section
           = scheme.obstacles[Choice(KeysList(chosen_obstacles_sets_indices,
                                              DOMAIN forbidden_start_zones),
                                     random_outputs.start)]
      /\ scheme.parking_section
           = scheme.obstacles[
               Choice(SuitableList(
                        chosen_obstacles_sets_indices,
                        obstacles_set_conflicting_with_parking_section,
                        obstacles_set_suitable_for_parking_section),
                      random_outputs.parking)]
      /\ \A zones \in ListsOfZoneSet(
                         {"Z3", "Z4"}
                           \ forbidden_start_zones[
                               obstacles_set_in_start_section]) :
           scheme.start_zone = Choice(zones, random_outputs.zone)

\* C14: after any sequence of open-round, fixed-centre and obstacle-round
\* calls the module-level tables are what they were when the module was
\* loaded: the catalog, the mandatory and required tables, the two
\* forbidden-intersection tables and the template image.
C14_TablesUnchanged ==
    /\ obstacles_sets = ObstaclesSetsInit
    /\ mandatory_obstacles_sets = MandatoryObstaclesSetsInit
    /\ required_obstacles_sets = RequiredObstaclesSetsInit
    /\ forbidden_intersections_in_start_zone = ForbiddenInStartZoneInit
    /\ forbidden_intersections_in_parking_section
         = ForbiddenInParkingSectionInit
    /\ template = TemplateInit

C14_Witness ==
    /\ Delivered
    /\ image.vehicle.start_zone = "Z4"
    /\ image.parking = "EAST"
    /\ image.obstacles = scheme.obstacles
    /\ template = {}

\* an iteration of the obstacle round has been tallied and tested
Evaluated ==
    /\ call = "obstacle"
    /\ pc \in {"loop", "done"}
    /\ chosen_obstacles_sets_indices # <<>>

\* the four sets the running iteration has drawn
OwnDraw ==
    <<mandatory_obstacles_sets[mandatory_set_color], required_obstacles_set,
      os1, os2>>

\* the obstacles of the sets of a draw: <<position in the draw, position in
\* the set>>
ObstaclesOf(draw) ==
    {p \in (DOMAIN draw) \X {1, 2} : p[2] \in DOMAIN obstacles_sets[draw[p[1]]]}

ObstaclesOfColor(draw, color) ==
    {p \in ObstaclesOf(draw) : obstacles_sets[draw[p[1]]][p[2]].color = color}

\* the intersections a catalog set occupies
Positions(index) ==
    {obstacles_sets[index][k].position : k \in DOMAIN obstacles_sets[index]}

\* the zones of Z3, Z4 for which a set has an obstacle ahead of the vehicle
ZonesAhead(index, d) ==
    {zone \in {"Z3", "Z4"} :
       Positions(index) \cap Range(ForbiddenInStartZoneInit[d][zone]) # {}}

\* a set has no obstacle where the parking lot is
ParkingEligible(index) == Positions(index) \cap {"T3", "T4", "X2"} = {}

\* C16: an iteration is accepted exactly when the four predicates hold for
\* its own draw: every accumulator it tests holds the tally of the sets it
\* drew itself, whatever was rejected before, and the start and parking sets
\* of a delivered scheme are candidates of the accepted draw.
C16_OwnDrawDecides ==
    /\ (pc = "loop" /\ chosen_obstacles_sets_indices # <<>>) =>
         /\ chosen_obstacles_sets_indices = OwnDraw
         /\ obstacles_amount = Cardinality(ObstaclesOf(OwnDraw))
         /\ green_amount = Cardinality(ObstaclesOfColor(OwnDraw, "GREEN"))
         /\ red_amount = Cardinality(ObstaclesOfColor(OwnDraw, "RED"))
         /\ DOMAIN forbidden_start_zones
              = {index \in Range(OwnDraw) :
                   ZonesAhead(index, direction) # {"Z3", "Z4"}}
         /\ \A index \in DOMAIN forbidden_start_zones :
              forbidden_start_zones[index] = ZonesAhead(index, direction)
         /\ obstacles_set_suitable_for_parking_section
              = {index \in Range(OwnDraw) : ParkingEligible(index)}
         /\ satisfied <=>
              /\ Cardinality(ObstaclesOfColor(OwnDraw, "GREEN"))
                   - Cardinality(ObstaclesOfColor(OwnDraw, "RED"))
                   \in {0 - 1, 0, 1}
              /\ Cardinality(ObstaclesOf(OwnDraw)) > 4
              /\ \E index \in Range(OwnDraw) :
                   ZonesAhead(index, direction) # {"Z3", "Z4"}
              /\ \E index \in Range(OwnDraw) : ParkingEligible(index)
    /\ Delivered =>
         /\ satisfied
         /\ chosen_obstacles_sets_indices = OwnDraw
         /\ obstacles_set_in_start_section \in Range(OwnDraw)
         /\ scheme.start_zone
              \notin ZonesAhead(obstacles_set_in_start_section, direction)
         /\ obstacles_set_in_parking_section \in Range(OwnDraw)
         /\ ParkingEligible(obstacles_set_in_parking_section)

\* a rejected iteration that fails the parking test alone
C16_Witness ==
    /\ pc = "loop"
    /\ ~satisfied
    /\ chosen_obstacles_sets_indices # <<>>
    /\ chosen_obstacles_sets_indices = OwnDraw
    /\ green_amount = red_amount
    /\ obstacles_amount = 6
    /\ Cardinality(DOMAIN forbidden_start_zones) = 4
    /\ obstacles_set_suitable_for_parking_section = {}

\* C17: for every draw of four sets and either direction the step that drops
\* sets from start-zone consideration ends normally and leaves exactly the
\* chosen sets for which fewer than two of Z3, Z4 are forbidden.
C17_DropStep ==
    /\ error # "RuntimeError"
    /\ Evaluated =>
         /\ DOMAIN forbidden_start_zones
              = {index \in Range(chosen_obstacles_sets_indices) :
                   Cardinality(ZonesAhead(index, direction)) < 2}
         /\ \A index \in Range(chosen_obstacles_sets_indices) :
              index \notin DOMAIN forbidden_start_zones
                <=> ZonesAhead(index, direction) = {"Z3", "Z4"}

C17_Witness ==
    /\ pc = "loop"
    /\ direction = "CW"
    /\ chosen_obstacles_sets_indices = <<9, 28, 4, 17>>
    /\ forbidden_start_zones[9] = {"Z4"}
    /\ forbidden_start_zones[28] = {"Z3"}
    /\ forbidden_start_zones[4] = {}
    /\ forbidden_start_zones[17] = {"Z3"}

\* the pairs of catalog entries that hold the same obstacles
DuplicateEntries == {{21, 23}, {22, 24}, {27, 29}, {28, 30}}

\* C19 as stated: the four sets of a delivered scheme are pairwise distinct
\* as lists of (intersection, color) obstacles.
C19_DistinctObstacleLists ==
    Delivered =>
      \A a, b \in DOMAIN scheme.obstacles :
        a # b => obstacles_sets[a] # obstacles_sets[b]

\* C19: the four sets of a delivered scheme have pairwise distinct catalog
\* indices and lie in four distinct sections; two of them hold the same
\* obstacles only when they are one of the duplicate entries of the catalog,
\* 21/23, 22/24, 27/29 or 28/30.
C19_DistinctIndices ==
    Delivered =>
      /\ Cardinality(DOMAIN scheme.obstacles) = 4
      /\ \A a, b \in DOMAIN scheme.obstacles :
           a # b =>
             /\ scheme.obstacles[a] # scheme.obstacles[b]
             /\ obstacles_sets[a] = obstacles_sets[b]
                  => {a, b} \in DuplicateEntries

C19_Witness ==
    /\ Delivered
    /\ required_obstacles_set = 21
    /\ os1 = 23
    /\ obstacles_sets[21] = obstacles_sets[23]
    /\ scheme.obstacles[21] = "NORTH"
    /\ scheme.obstacles[23] = "SOUTH"

\* C20: with the catalog as shipped, for every draw and either direction,
\* the number of obstacles is between 5 and 7 and no set has both Z3 and Z4
\* forbidden, so no set is dropped and the tests of the amount and of the
\* start zone always pass: a draw is accepted exactly when the colors differ
\* by at most one and some chosen set is parking-eligible.
C20_TwoTestsDecide ==
    /\ pc # "error"
    /\ \A index \in DOMAIN obstacles_sets :
         \A d \in Directions : ZonesAhead(index, d) # {"Z3", "Z4"}
    /\ Evaluated =>
         /\ obstacles_amount \in 5 .. 7
         /\ obstacles_amount = Cardinality(ObstaclesOf(OwnDraw))
         /\ DOMAIN forbidden_start_zones = Range(OwnDraw)
         /\ Cardinality(DOMAIN forbidden_start_zones) = 4
         /\ satisfied <=>
              /\ green_amount - red_amount \in {0 - 1, 0, 1}
              /\ obstacles_set_suitable_for_parking_section # {}

\* an accepted draw of seven obstacles with a single parking-eligible set
C20_Witness ==
    /\ pc = "loop"
    /\ satisfied
    /\ obstacles_amount = 7
    /\ green_amount = 4
    /\ Cardinality(obstacles_set_suitable_for_parking_section) = 1

\* the pairs <<start set, parking set>> the two choice() calls of 1220 and
\* 1227 can return after the tally that is in the state
StartAndParkingPairs ==
    LET keys == KeysList(chosen_obstacles_sets_indices,
                         StartSectionCandidates(forbidden_start_zones))
        suitable ==
          SuitableList(chosen_obstacles_sets_indices,
                       obstacles_set_conflicting_with_parking_section,
                       ParkingSectionCandidates(
                         obstacles_set_suitable_for_parking_section))
    IN {<<Choice(keys, r_start), Choice(suitable, r_parking)>> :
          r_start \in ChoiceOutputs(keys),
          r_parking \in ChoiceOutputs(suitable)}

\* C23: the start set and the parking set are chosen independently of each
\* other and are not kept apart: after an accepted draw every start
\* candidate can be combined with every parking candidate, so a set that is
\* both can be chosen as both; a delivered scheme has its parking lot in the
\* start section exactly when that happened, and either direction has
\* accepted draws with such a set.
C23_StartAndParkingIndependent ==
    /\ (pc = "loop" /\ satisfied) =>
         /\ StartAndParkingPairs
              = (DOMAIN forbidden_start_zones)
                  \X obstacles_set_suitable_for_parking_section
         /\ \A index \in (DOMAIN forbidden_start_zones)
                           \cap obstacles_set_suitable_for_parking_section :
              <<index, index>> \in StartAndParkingPairs
    /\ Delivered =>
         /\ obstacles_set_in_start_section \in DOMAIN forbidden_start_zones
         /\ obstacles_set_in_parking_section
              \in obstacles_set_suitable_for_parking_section
         /\ scheme.parking_section = scheme.start_section
              <=> obstacles_set_in_parking_section
                    = obstacles_set_in_start_section
    /\ pc = "idle" =>
         \A d \in Directions :
           \E color \in MandatoryColors :
             \E required \in Range(required_obstacles_sets) :
               \E a, b \in CatalogIndices :
                 /\ Accepted(d, <<mandatory_obstacles_sets[color], required,
                                  a, b>>)
                 /\ \E index \in {mandatory_obstacles_sets[color], required,
                                    a, b} :
                      /\ ParkingEligible(index)
                      /\ ZonesAhead(index, d) # {"Z3", "Z4"}

C23_Witness ==
    /\ Delivered
    /\ direction = "CCW"
    /\ scheme.parking_section = scheme.start_section
    /\ scheme.start_section = "WEST"
    /\ obstacles_set_in_parking_section = obstacles_set_in_start_section
    /\ image.parking = image.vehicle.section

\* a set among the given ones has an obstacle that is neither green nor red
HasUndefinedColor(indices) ==
    \E i \in DOMAIN indices :
      \E k \in DOMAIN obstacles_sets[indices[i]] :
        obstacles_sets[indices[i]][k].color \notin {"GREEN", "RED"}

\* C15: an iteration whose chosen sets hold an obstacle that is neither green
\* nor red ends the generation in an error: no scheme, no image, and the
\* loop neither redraws nor goes on to the assignment; with the catalog as
\* shipped and the color drawn from {GREEN, RED} neither this error nor a
\* failing mandatory lookup is reached.
C15_UnknownColorIsAnError ==
    /\ (pc = "loop" /\ chosen_obstacles_sets_indices # <<>>) =>
         ~HasUndefinedColor(chosen_obstacles_sets_indices)
    /\ pc = "error" =>
         /\ error = "ValueError"
         /\ HasUndefinedColor(chosen_obstacles_sets_indices)
         /\ ~satisfied
         /\ scheme = None
         /\ image = None
         /\ ~ENABLED LoopNext
         /\ ~ENABLED AssignAndDraw
    /\ obstacles_sets = ObstaclesSetsInit =>
         /\ pc # "error"
         /\ error = None
         /\ mandatory_set_color \in {None} \cup DOMAIN mandatory_obstacles_sets

C15_Witness ==
    /\ pc = "error"
    /\ error = "ValueError"
    /\ obstacles_sets[31][2].color = "UNDEFINED"
    /\ os2 = 31
    /\ ~HasUndefinedColor(<<mandatory_obstacles_set, required_obstacles_set,
                            os1>>)

----------------------------------------------------------------------------
(* Properties of the open round *)

\* the drawn inner wall of a side is the one pulled towards the outer wall
PulledInward(walls, section) ==
    \/ section = "NORTH" /\ walls.north
    \/ section = "WEST" /\ walls.west
    \/ section = "SOUTH" /\ walls.south
    \/ section = "EAST" /\ walls.east

\* C7: open round with the random centre: when the inner wall of the start
\* section is pulled inward the start zone is one of Z6, Z5, Z4, Z3;
\* otherwise the zone is drawn from all six.
C7_OpenStartZone ==
    (pc = "done" /\ call = "open") =>
      /\ image.vehicle.section = starting_section
      /\ image.vehicle.start_zone \in Range(allowed_zones)
      /\ IF PulledInward(image.inner_walls, image.vehicle.section)
         THEN /\ Range(allowed_zones) = {"Z6", "Z5", "Z4", "Z3"}
              /\ image.vehicle.start_zone \notin {"Z1", "Z2"}
         ELSE Range(allowed_zones) = {"Z1", "Z2", "Z3", "Z4", "Z5", "Z6"}

C7_Witness ==
    /\ pc = "done"
    /\ call = "open"
    /\ image.vehicle.section = "WEST"
    /\ PulledInward(image.inner_walls, "WEST")
    /\ ~PulledInward(image.inner_walls, "NORTH")
    /\ image.vehicle.start_zone = "Z3"

\* C8: fixed-centre open round: the start zone is drawn from all six zones
\* whatever wall subset was drawn and discarded.
C8_FixedUnrestricted ==
    (pc = "done" /\ call = "fixed") =>
      Range(allowed_zones) = {"Z1", "Z2", "Z3", "Z4", "Z5", "Z6"}

\* C9: fixed-centre open round and obstacle round: the inner walls that are
\* drawn are the default ones, no side pulled inward, whatever was drawn
\* before.
C9_DefaultWallsDrawn ==
    (pc = "done" /\ call \in {"fixed", "obstacle"}) =>
      \A section \in Range(sections) :
        ~PulledInward(image.inner_walls, section)

C9_Witness ==
    /\ pc = "done"
    /\ call = "fixed"
    /\ Len(inner_walls_config) = 3
    /\ starting_section \in Range(inner_walls_config)
    /\ \A section \in Range(sections) :
         ~PulledInward(image.inner_walls, section)

\* the slice of the start zone the open round has painted
VehicleSlice ==
    Painted(image.vehicle.section,
            VehiclePositionCorners(image.vehicle.start_zone)).absolute

\* how far the start zone reaches towards the centre, in canonical
\* coordinates
ExtentTowardsCentre(start_zone) ==
    Max(VehiclePositionCorners(start_zone)[1],
        VehiclePositionCorners(start_zone)[3])

\* C21: in every open-round layout the start zone lies on the outer side of
\* the inner wall of its section as that wall is drawn: it reaches at most
\* to the second arc (600) when the wall is pulled inward, and at most to the
\* inner border (1000) with the fixed centre.
C21_StartZoneOutsideWall ==
    (pc = "done" /\ call \in {"open", "fixed"}) =>
      LET lines == InnerWallLines(image.inner_walls)
          section == image.vehicle.section
      IN /\ section = "NORTH" => VehicleSlice.rows[2] <= lines.h_n + border
         /\ section = "WEST" => VehicleSlice.cols[2] <= lines.w_w + border
         /\ section = "SOUTH" => VehicleSlice.rows[1] >= lines.h_s + border
         /\ section = "EAST" => VehicleSlice.cols[1] >= lines.w_e + border
         /\ PulledInward(image.inner_walls, section) =>
              ExtentTowardsCentre(image.vehicle.start_zone) <= second_line
         /\ call = "fixed" =>
              /\ ExtentTowardsCentre(image.vehicle.start_zone) <= inner_border
              /\ lines = [h_n |-> inner_border, w_w |-> inner_border,
                          h_s |-> height - inner_border,
                          w_e |-> width - inner_border]

\* the south wall pulled inward and a start zone that reaches it
C21_Witness ==
    /\ pc = "done"
    /\ call = "open"
    /\ image.vehicle.section = "SOUTH"
    /\ PulledInward(image.inner_walls, "SOUTH")
    /\ image.vehicle.start_zone = "Z3"
    /\ VehicleSlice.rows[1] = height - second_line + border

----------------------------------------------------------------------------
(* Termination of the rejection loop *)

\* every mandatory color and every member of the required pool has a draw of
\* os1 and os2 that is accepted
EveryPairHasAcceptedDraw ==
    \A color \in MandatoryColors :
      \A required \in Range(required_obstacles_sets) :
        \E a, b \in CatalogIndices :
          Accepted(direction, <<mandatory_obstacles_sets[color], required,
                                a, b>>)

\* C10: with a fair random source both inner loops end and the rejection
\* loop reaches an accepted draw, for both directions; each mandatory color
\* and each required set has an accepted draw.
C10_Terminates ==
    /\ EveryPairHasAcceptedDraw
    /\ (pc = "os1") ~> (pc = "os2")
    /\ (pc = "os2") ~> (pc = "loop")
    /\ <>(pc = "loop" /\ satisfied)

C10_Witness ==
    /\ pc = "loop"
    /\ satisfied
    /\ direction = "CW"
    /\ mandatory_set_color = "RED"
    /\ required_obstacles_set = 27

====
